---- MODULE Spec2Model ----
(***************************************************************************)
(* Model of the DatePicker component (components/date-picker): the React   *)
(* state of one mounted picker, its event handlers, its effects and the    *)
(* date-fns functions the handlers call.                                   *)
(*                                                                         *)
(* A Date is a record [y, m, d, t]: full year, month index 0..11, day of   *)
(* month, and the time of day (0 = local midnight, which is what           *)
(* new Date(y, m, d) builds at line 232).  The JavaScript value undefined  *)
(* is the record undefined.                                                *)
(***************************************************************************)
EXTENDS Integers, Sequences, FiniteSets, TLC

VARIABLES
  mode,          \* prop mode: "single" | "range" | "duo"
  onReset,       \* TRUE iff the consumer passed an onReset handler
  value,         \* prop value
  defaultValue,  \* prop defaultValue
  today,         \* what new Date() returns
  selectedDate,  \* useState, line 77
  currentMonth,  \* useState, line 78
  isOpen,        \* useState, line 79
  view,          \* useState, line 80
  isRangeMode,   \* useState, line 81
  rangeStart,    \* useState, line 84
  rangeEnd,      \* useState, line 85
  rangeHover,    \* useState, line 86
  closeTimer,    \* TRUE iff the timeout of line 112 is pending
  scrollTimers,  \* the number of pending timeouts of line 128
  mounted,       \* TRUE until the component is unmounted
  emitted        \* the calls made by the last step, in order: the consumer's
                 \* callbacks and scrollIntoView

vars == <<mode, onReset, value, defaultValue, today, selectedDate, currentMonth,
          isOpen, view, isRangeMode, rangeStart, rangeEnd, rangeHover,
          closeTimer, scrollTimers, mounted, emitted>>

props == <<mode, onReset, value, defaultValue, today>>

(***************************************************************************)
(* Bounds of the model.                                                    *)
(***************************************************************************)
\* the months on display are at most this many months away from the month
\* of today
MaxMonthsAway == 1

\* at most this many timeouts of line 128 are pending at a time
MaxScrollTimers == 1

\* the calendar-grid specification is built on every day new Date() can
\* return in the years GridFirstYear .. GridLastYear
GridFirstYear == 1896

GridLastYear == 2104

(***************************************************************************)
(* Values.                                                                 *)
(***************************************************************************)
undefined == [undef |-> TRUE]

Date(y, m, d) == [y |-> y, m |-> m, d |-> d, t |-> 0]

IsDate(v) == DOMAIN v = {"y", "m", "d", "t"}

\* JavaScript truthiness of a Date | undefined
Truthy(v) == v # undefined

\* the days a user clicks or hovers, when the grid on display holds them
SampleDays == {Date(2024, 0, 1), Date(2024, 2, 5), Date(2024, 2, 10)}

\* new Date() at construction: 15 February 2024, not at midnight
Now == [y |-> 2024, m |-> 1, d |-> 15, t |-> 1]

(***************************************************************************)
(* date-fns and the Date object.                                           *)
(***************************************************************************)
IsLeapYear(y) == (y % 4 = 0 /\ y % 100 # 0) \/ y % 400 = 0

\* getDaysInMonth: the date of day 0 of the following month
DaysIn(y, m) ==
  IF m = 1 THEN (IF IsLeapYear(y) THEN 29 ELSE 28)
  ELSE IF m \in {3, 5, 8, 10} THEN 30 ELSE 31

getDaysInMonth(date) == DaysIn(date.y, date.m)

\* startOfMonth: day 1 of the month, at midnight
startOfMonth(date) == [y |-> date.y, m |-> date.m, d |-> 1, t |-> 0]

\* days from 1970-01-01 to the date (proleptic Gregorian calendar)
DayNumber(date) ==
  LET yy  == IF date.m <= 1 THEN date.y - 1 ELSE date.y
      era == yy \div 400
      yoe == yy - era * 400
      mp  == (date.m + 10) % 12
      doy == (153 * mp + 2) \div 5 + date.d - 1
      doe == yoe * 365 + yoe \div 4 - yoe \div 100 + doy
  IN  era * 146097 + doe - 719468

\* Date.prototype.getDay: 0 = Sunday .. 6 = Saturday; 1970-01-01 was a Thursday
getDay(date) == (DayNumber(date) + 4) % 7

\* isAfter(a, b): the time value of a is greater than that of b
isAfter(a, b) ==
  \/ DayNumber(a) > DayNumber(b)
  \/ DayNumber(a) = DayNumber(b) /\ a.t > b.t

\* addMonths by Date.prototype.setMonth alone: a day the month does not have
\* rolls over to the month after it
addMonths_Overflowing(date, amount) ==
  LET total == date.y * 12 + date.m + amount
      dim   == DaysIn(total \div 12, total % 12)
  IN  IF date.d > dim
      THEN [y |-> (total + 1) \div 12, m |-> (total + 1) % 12, d |-> date.d - dim, t |-> date.t]
      ELSE [y |-> total \div 12, m |-> total % 12, d |-> date.d, t |-> date.t]

\* addMonths(date, amount): the same day of the month amount months later,
\* or the last day of that month when it has fewer days
addMonths(date, amount) ==
  LET total == date.y * 12 + date.m + amount
      ty    == total \div 12
      tm    == total % 12
      dim   == DaysIn(ty, tm)
  IN  [y |-> ty, m |-> tm, d |-> IF date.d >= dim THEN dim ELSE date.d, t |-> date.t]

subMonths(date, amount) == addMonths(date, 0 - amount)

\* setYear(date, year): Date.prototype.setFullYear(year); 29 February
\* rolls over to 1 March when year is not a leap year
setYear(date, year) ==
  IF date.d > DaysIn(year, date.m)
  THEN [y |-> year, m |-> date.m + 1, d |-> date.d - DaysIn(year, date.m), t |-> date.t]
  ELSE [y |-> year, m |-> date.m, d |-> date.d, t |-> date.t]

\* setMonth(date, month): the day is clamped to the length of the month
setMonth(date, month) ==
  LET dim == DaysIn(date.y, month)
  IN  [y |-> date.y, m |-> month, d |-> IF date.d < dim THEN date.d ELSE dim, t |-> date.t]

(***************************************************************************)
(* The component.                                                          *)
(***************************************************************************)
\* the React state of the current render, and the callbacks called so far
\* by the handler that is running
Cur ==
  [selectedDate |-> selectedDate, currentMonth |-> currentMonth,
   isOpen |-> isOpen, view |-> view, isRangeMode |-> isRangeMode,
   rangeStart |-> rangeStart, rangeEnd |-> rangeEnd, rangeHover |-> rangeHover,
   emitted |-> <<>>]

\* currentMonth instanceof Date ? currentMonth : new Date()
CursorOf(cm) == IF IsDate(cm) THEN cm ELSE today

currentYear(s) == CursorOf(s.currentMonth).y

currentMonthIndex(s) == CursorOf(s.currentMonth).m

\* the list of years of the years view
FirstYear == 1950

LastYear == 2050

years == FirstYear .. LastYear

\* the calls of the consumer's callbacks
ValueChanged(payload) == [sig |-> "onValueChange", payload |-> payload]

ModeChanged(m) == [sig |-> "onModeChange", payload |-> m]

ResetCalled == [sig |-> "onReset", payload |-> undefined]

\* currentYearRef.current?.scrollIntoView(...)
ScrollIntoView == [sig |-> "scrollIntoView", payload |-> undefined]

Range(from, to) == [from |-> from, to |-> to]

Emit(s, signal) == [s EXCEPT !.emitted = Append(s.emitted, signal)]

\* SelectSingle that leaves the month on display
SelectSingle_KeepsCursor(s, day) ==
  Emit([s EXCEPT !.selectedDate = day, !.isOpen = FALSE], ValueChanged(day))

\* handleSelect, !isRangeMode
SelectSingle(s, day) ==
  Emit([s EXCEPT !.selectedDate = day, !.currentMonth = day, !.isOpen = FALSE],
       ValueChanged(day))

\* SelectStart that leaves the hover preview of the previous range
SelectStart_KeepsHover(s, day) ==
  [s EXCEPT !.rangeStart = day, !.rangeEnd = undefined]

\* SelectStart that reports the start alone
SelectStart_EmitsStart(s, day) ==
  Emit([s EXCEPT !.rangeStart = day, !.rangeEnd = undefined, !.rangeHover = undefined],
       ValueChanged(Range(day, undefined)))

\* handleSelect, range mode, no start yet or a complete range
SelectStart(s, day) ==
  [s EXCEPT !.rangeStart = day, !.rangeEnd = undefined, !.rangeHover = undefined]

\* SelectEnd without the swap: the second click is always the end
SelectEnd_NoSwap(s, day) ==
  Emit([s EXCEPT !.rangeEnd = day, !.isOpen = FALSE],
       ValueChanged(Range(s.rangeStart, day)))

\* SelectEnd that stores the ordered pair but reports it in click order
SelectEnd_PayloadInClickOrder(s, day) ==
  LET isAfterStart == isAfter(day, s.rangeStart)
      n == IF isAfterStart
           THEN [s EXCEPT !.rangeEnd = day]
           ELSE [s EXCEPT !.rangeEnd = s.rangeStart, !.rangeStart = day]
  IN  Emit([n EXCEPT !.isOpen = FALSE], ValueChanged(Range(s.rangeStart, day)))

\* handleSelect, range mode, start only
SelectEnd(s, day) ==
  LET isAfterStart == isAfter(day, s.rangeStart)
      n == IF isAfterStart
           THEN [s EXCEPT !.rangeEnd = day]
           ELSE [s EXCEPT !.rangeEnd = s.rangeStart, !.rangeStart = day]
  IN  Emit([n EXCEPT !.isOpen = FALSE],
           ValueChanged(Range(IF isAfterStart THEN s.rangeStart ELSE day,
                              IF isAfterStart THEN day ELSE s.rangeStart)))

handleSelect(s, day) ==
  IF ~s.isRangeMode THEN SelectSingle(s, day)
  ELSE IF ~Truthy(s.rangeStart) \/ (Truthy(s.rangeStart) /\ Truthy(s.rangeEnd))
       THEN SelectStart(s, day)
  ELSE IF Truthy(s.rangeStart) /\ ~Truthy(s.rangeEnd)
       THEN SelectEnd(s, day)
  ELSE s

\* handleDayHover without the test of the range state
handleDayHover_Unguarded(s, day) == [s EXCEPT !.rangeHover = day]

handleDayHover(s, day) ==
  IF s.isRangeMode /\ Truthy(s.rangeStart) /\ ~Truthy(s.rangeEnd)
  THEN [s EXCEPT !.rangeHover = day]
  ELSE s

previousMonth(s) == [s EXCEPT !.currentMonth = subMonths(CursorOf(s.currentMonth), 1)]

nextMonth(s) == [s EXCEPT !.currentMonth = addMonths(CursorOf(s.currentMonth), 1)]

toggleView(s) == [s EXCEPT !.view = IF s.view = "days" THEN "years" ELSE "days"]

\* the month set before the year
handleMonthSelect_MonthBeforeYear(s, year, monthIndex) ==
  [s EXCEPT !.currentMonth = setYear(setMonth(CursorOf(s.currentMonth), monthIndex), year),
            !.view = "days"]

handleMonthSelect(s, year, monthIndex) ==
  [s EXCEPT !.currentMonth = setMonth(setYear(CursorOf(s.currentMonth), year), monthIndex),
            !.view = "days"]

\* the first loop with i <= startDay
RECURSIVE LeadingCells_Inclusive(_, _)
LeadingCells_Inclusive(i, startDay) ==
  IF i <= startDay THEN <<undefined>> \o LeadingCells_Inclusive(i + 1, startDay) ELSE <<>>

\* the first loop of calendarDays: startDay empty cells
RECURSIVE LeadingCells(_, _)
LeadingCells(i, startDay) ==
  IF i < startDay THEN <<undefined>> \o LeadingCells(i + 1, startDay) ELSE <<>>

\* the second loop with day < daysInMonth
RECURSIVE DayCells_StopsEarly(_, _, _, _)
DayCells_StopsEarly(day, daysInMonth, year, month) ==
  IF day < daysInMonth
  THEN <<Date(year, month, day)>> \o DayCells_StopsEarly(day + 1, daysInMonth, year, month)
  ELSE <<>>

\* the second loop of calendarDays: new Date(year, month, day) for each day
RECURSIVE DayCells(_, _, _, _)
DayCells(day, daysInMonth, year, month) ==
  IF day <= daysInMonth
  THEN <<Date(year, month, day)>> \o DayCells(day + 1, daysInMonth, year, month)
  ELSE <<>>

calendarDays(cm) ==
  LET daysInMonth == getDaysInMonth(CursorOf(cm))
      startDay    == getDay(startOfMonth(CursorOf(cm)))
  IN  LeadingCells(0, startDay)
        \o DayCells(1, daysInMonth, CursorOf(cm).y, CursorOf(cm).m)

\* handleReset that calls onValueChange only when there is something to clear
handleReset_QuietWhenEmpty(s) ==
  IF ~onReset THEN s
  ELSE IF ~s.isRangeMode
       THEN LET n == [s EXCEPT !.selectedDate = undefined]
            IN  Emit(IF Truthy(s.selectedDate) THEN Emit(n, ValueChanged(undefined)) ELSE n,
                     ResetCalled)
       ELSE LET n == [s EXCEPT !.rangeStart = undefined, !.rangeEnd = undefined,
                               !.rangeHover = undefined]
            IN  Emit(IF Truthy(s.rangeStart)
                     THEN Emit(n, ValueChanged(Range(undefined, undefined))) ELSE n,
                     ResetCalled)

\* handleReset without the early return
handleReset_NoHandlerTest(s) ==
  IF ~s.isRangeMode
  THEN Emit([s EXCEPT !.selectedDate = undefined], ValueChanged(undefined))
  ELSE Emit([s EXCEPT !.rangeStart = undefined, !.rangeEnd = undefined,
                      !.rangeHover = undefined],
            ValueChanged(Range(undefined, undefined)))

handleReset(s) ==
  IF ~onReset THEN s
  ELSE IF ~s.isRangeMode
       THEN Emit(Emit([s EXCEPT !.selectedDate = undefined], ValueChanged(undefined)),
                 ResetCalled)
       ELSE Emit(Emit([s EXCEPT !.rangeStart = undefined, !.rangeEnd = undefined,
                                !.rangeHover = undefined],
                      ValueChanged(Range(undefined, undefined))),
                 ResetCalled)

\* onCheckedChange that drops an unfinished range when leaving range mode
onCheckedChange_DropsUnfinishedRange(s, isChecked) ==
  LET flipped == [s EXCEPT !.isRangeMode = isChecked]
      n == IF isChecked
           THEN Emit([flipped EXCEPT !.currentMonth =
                        IF Truthy(s.rangeStart) THEN s.rangeStart ELSE s.currentMonth],
                     ValueChanged(IF Truthy(s.rangeStart) /\ Truthy(s.rangeEnd)
                                  THEN Range(s.rangeStart, s.rangeEnd)
                                  ELSE undefined))
           ELSE Emit([flipped EXCEPT !.currentMonth =
                        IF Truthy(s.selectedDate) THEN s.selectedDate ELSE s.currentMonth,
                                     !.rangeStart =
                        IF Truthy(s.rangeEnd) THEN s.rangeStart ELSE undefined,
                                     !.rangeHover = undefined],
                     ValueChanged(s.selectedDate))
  IN  Emit(n, ModeChanged(IF isChecked THEN "range" ELSE "single"))

\* onCheckedChange that reports the range as soon as it has a start
onCheckedChange_EmitsUnfinishedRange(s, isChecked) ==
  LET flipped == [s EXCEPT !.isRangeMode = isChecked]
      n == IF isChecked
           THEN Emit([flipped EXCEPT !.currentMonth =
                        IF Truthy(s.rangeStart) THEN s.rangeStart ELSE s.currentMonth],
                     ValueChanged(IF Truthy(s.rangeStart)
                                  THEN Range(s.rangeStart, s.rangeEnd)
                                  ELSE undefined))
           ELSE Emit([flipped EXCEPT !.currentMonth =
                        IF Truthy(s.selectedDate) THEN s.selectedDate ELSE s.currentMonth],
                     ValueChanged(s.selectedDate))
  IN  Emit(n, ModeChanged(IF isChecked THEN "range" ELSE "single"))

\* Switch.onCheckedChange of the duo switch
onCheckedChange(s, isChecked) ==
  LET flipped == [s EXCEPT !.isRangeMode = isChecked]
      n == IF isChecked
           THEN Emit([flipped EXCEPT !.currentMonth =
                        IF Truthy(s.rangeStart) THEN s.rangeStart ELSE s.currentMonth],
                     ValueChanged(IF Truthy(s.rangeStart) /\ Truthy(s.rangeEnd)
                                  THEN Range(s.rangeStart, s.rangeEnd)
                                  ELSE undefined))
           ELSE Emit([flipped EXCEPT !.currentMonth =
                        IF Truthy(s.selectedDate) THEN s.selectedDate ELSE s.currentMonth],
                     ValueChanged(s.selectedDate))
  IN  Emit(n, ModeChanged(IF isChecked THEN "range" ELSE "single"))

\* the effect of lines 107-123, run after a render in which isOpen or view
\* changed: the cleanup clears the pending timeout, then a new one is set
\* when the popover is closed on a view other than days
CloseResetEffect_NoCleanup(wasOpen, oldView, oldTimer, s) ==
  IF s.isOpen # wasOpen \/ s.view # oldView
  THEN oldTimer \/ (~s.isOpen /\ s.view # "days")
  ELSE oldTimer

CloseResetEffect_NeverSchedules(wasOpen, oldView, oldTimer, s) ==
  IF s.isOpen # wasOpen \/ s.view # oldView
  THEN FALSE
  ELSE oldTimer

CloseResetEffect_IgnoresOpen(wasOpen, oldView, oldTimer, s) ==
  IF s.isOpen # wasOpen \/ s.view # oldView
  THEN s.view # "days"
  ELSE oldTimer

CloseResetEffect(wasOpen, oldView, oldTimer, s) ==
  IF s.isOpen # wasOpen \/ s.view # oldView
  THEN ~s.isOpen /\ s.view # "days"
  ELSE oldTimer

\* whether currentYearRef.current is set in state s: the div of line 413 that
\* takes the ref is the one of the year on display, if the list has it, and it
\* is in the popover's content, whatever the view is.  The content is there
\* while the popover is open; once it is closed it stays for the time of
\* the closing animation, so both answers are possible.
RefCurrent(s) ==
  IF ~mounted \/ currentYear(s) \notin years THEN {FALSE}
  ELSE IF s.isOpen THEN {TRUE}
  ELSE {TRUE, FALSE}

\* the effect of lines 126-132, run after a render in which view changed:
\* one more timeout when the view is now years and the ref is set; no
\* cleanup clears it
ScrollEffect(oldView, oldTimers, s) ==
  IF s.view # oldView /\ s.view = "years"
  THEN {IF ref THEN oldTimers + 1 ELSE oldTimers : ref \in RefCurrent(s)}
  ELSE {oldTimers}

\* typeof v === 'object': a Date and a range are objects
IsObject(v) == IsDate(v) \/ DOMAIN v \subseteq {"from", "to"}

\* v.key: undefined when the object has no such property
PropertyOf(v, key) == IF key \in DOMAIN v THEN v[key] ELSE undefined

\* the effect of lines 96-104, run after the first render and after a
\* render in which value changed
ValueSyncEffect(s, v) ==
  IF Truthy(v) /\ ~IsObject(v)
  THEN [s EXCEPT !.rangeStart = v, !.rangeEnd = undefined]
  ELSE IF Truthy(v) /\ "from" \in DOMAIN v
       THEN [s EXCEPT !.rangeStart = PropertyOf(v, "from"), !.rangeEnd = PropertyOf(v, "to")]
  ELSE s

\* the render that follows a handler: the new state and the effects
Commit(n) ==
  /\ mounted
  /\ selectedDate' = n.selectedDate
  /\ currentMonth' = n.currentMonth
  /\ isOpen' = n.isOpen
  /\ view' = n.view
  /\ isRangeMode' = n.isRangeMode
  /\ rangeStart' = n.rangeStart
  /\ rangeEnd' = n.rangeEnd
  /\ rangeHover' = n.rangeHover
  /\ emitted' = n.emitted
  /\ closeTimer' = CloseResetEffect(isOpen, view, closeTimer, n)
  /\ scrollTimers' \in ScrollEffect(view, scrollTimers, n)
  /\ UNCHANGED mounted
  /\ UNCHANGED props

(***************************************************************************)
(* Construction: a picker built without value and defaultValue.            *)
(***************************************************************************)
Init ==
  /\ mode \in {"single", "range", "duo"}
  /\ onReset \in BOOLEAN
  /\ value = undefined
  /\ defaultValue = undefined
  /\ today = Now
  /\ selectedDate = defaultValue
  /\ currentMonth = (IF Truthy(value) THEN value
                     ELSE IF Truthy(defaultValue) THEN defaultValue ELSE today)
  /\ isOpen = FALSE
  /\ view = "days"
  /\ isRangeMode = (mode = "range")
  /\ rangeStart = undefined
  /\ rangeEnd = undefined
  /\ rangeHover = undefined
  /\ closeTimer = FALSE
  /\ scrollTimers = 0
  /\ mounted = TRUE
  /\ emitted = <<>>

(***************************************************************************)
(* The events.                                                             *)
(***************************************************************************)
\* the day buttons of the grid on display
DayButtons ==
  LET cells == calendarDays(currentMonth)
  IN  {cells[i] : i \in 1 .. Len(cells)} \ {undefined}

\* the sample days among them
Clickable == DayButtons \cap SampleDays

\* the months the model navigates to: those at most MaxMonthsAway months
\* before or after the month of today
MonthsFromToday(date) == (date.y * 12 + date.m) - (today.y * 12 + today.m)

InWindow(date) == MonthsFromToday(date) \in (0 - MaxMonthsAway) .. MaxMonthsAway

\* the years of the list and the months of the year that such a month has
YearChoices ==
  {(today.y * 12 + today.m + k) \div 12 : k \in (0 - MaxMonthsAway) .. MaxMonthsAway}
    \cap years

MonthChoices ==
  {(today.y * 12 + today.m + k) % 12 : k \in (0 - MaxMonthsAway) .. MaxMonthsAway}

SelectDay(day) == Commit(handleSelect(Cur, day))

HoverDay(day) == Commit(handleDayHover(Cur, day))

PreviousMonth ==
  /\ InWindow(previousMonth(Cur).currentMonth)
  /\ Commit(previousMonth(Cur))

NextMonth ==
  /\ InWindow(nextMonth(Cur).currentMonth)
  /\ Commit(nextMonth(Cur))

ToggleView ==
  /\ view = "days" => scrollTimers < MaxScrollTimers
  /\ Commit(toggleView(Cur))

SelectMonthYear(year, monthIndex) ==
  /\ InWindow(handleMonthSelect(Cur, year, monthIndex).currentMonth)
  /\ Commit(handleMonthSelect(Cur, year, monthIndex))

Reset == Commit(handleReset(Cur))

\* the switch is rendered in duo mode only; it reports the flipped value
SetRangeMode(isChecked) ==
  /\ mode = "duo"
  /\ isChecked # isRangeMode
  /\ Commit(onCheckedChange(Cur, isChecked))

\* Popover.onOpenChange = setIsOpen
Open ==
  /\ ~isOpen
  /\ Commit([Cur EXCEPT !.isOpen = TRUE])

Close ==
  /\ isOpen
  /\ Commit([Cur EXCEPT !.isOpen = FALSE])

\* the timeout of line 112 fires
CloseTimerFires ==
  /\ closeTimer
  /\ Commit([Cur EXCEPT !.view = "days"])

\* a timeout of line 128 fires
ScrollTimerFires ==
  /\ scrollTimers > 0
  /\ scrollTimers' = scrollTimers - 1
  /\ \E ref \in RefCurrent(Cur) : emitted' = IF ref THEN <<ScrollIntoView>> ELSE <<>>
  /\ UNCHANGED <<selectedDate, currentMonth, isOpen, view, isRangeMode, rangeStart,
                 rangeEnd, rangeHover, closeTimer, mounted>>
  /\ UNCHANGED props

\* the component is unmounted: the cleanup of the effect of lines 107-123
\* clears its timeout; the effect of lines 126-132 has no cleanup
Unmount ==
  /\ mounted
  /\ mounted' = FALSE
  /\ closeTimer' = FALSE
  /\ emitted' = <<>>
  /\ UNCHANGED <<selectedDate, currentMonth, isOpen, view, isRangeMode, rangeStart,
                 rangeEnd, rangeHover, scrollTimers>>
  /\ UNCHANGED props

Next ==
  \/ \E day \in Clickable : SelectDay(day)
  \/ \E day \in Clickable : HoverDay(day)
  \/ PreviousMonth
  \/ NextMonth
  \/ ToggleView
  \/ \E year \in YearChoices, monthIndex \in MonthChoices : SelectMonthYear(year, monthIndex)
  \/ Reset
  \/ \E isChecked \in BOOLEAN : SetRangeMode(isChecked)
  \/ Open
  \/ Close
  \/ CloseTimerFires
  \/ ScrollTimerFires

Spec == Init /\ [][Next]_vars

(***************************************************************************)
(* The life of a picker in single mode, to its unmounting.  A timeout that *)
(* is pending and is not cleared fires.                                    *)
(***************************************************************************)
InitLife ==
  /\ Init
  /\ mode = "single"
  /\ ~onReset

NextLife ==
  \/ \E day \in Clickable : SelectDay(day)
  \/ PreviousMonth
  \/ NextMonth
  \/ ToggleView
  \/ \E year \in YearChoices, monthIndex \in MonthChoices : SelectMonthYear(year, monthIndex)
  \/ Open
  \/ Close
  \/ CloseTimerFires
  \/ ScrollTimerFires
  \/ Unmount

SpecLife ==
  /\ InitLife
  /\ [][NextLife]_vars
  /\ WF_vars(CloseTimerFires)
  /\ WF_vars(ScrollTimerFires)

(***************************************************************************)
(* A picker built with a value, a defaultValue, both or none, before any   *)
(* selection: the popover, the view and the month on display move.         *)
(***************************************************************************)
\* the values a consumer passes: what the type of the mode allows
InitialValues(m) ==
  {undefined}
    \cup (IF m \in {"single", "duo"} THEN {Date(2024, 2, 5)} ELSE {})
    \cup (IF m \in {"range", "duo"} THEN {Range(Date(2024, 2, 5), Date(2024, 2, 10))} ELSE {})

\* the state after the first render and its effects
InitProps ==
  /\ mode \in {"single", "range", "duo"}
  /\ onReset = FALSE
  /\ value \in InitialValues(mode)
  /\ defaultValue \in InitialValues(mode)
  /\ today = Now
  /\ LET first == [selectedDate |-> defaultValue,
                   currentMonth |-> IF Truthy(value) THEN value
                                    ELSE IF Truthy(defaultValue) THEN defaultValue ELSE today,
                   isOpen |-> FALSE, view |-> "days", isRangeMode |-> (mode = "range"),
                   rangeStart |-> undefined, rangeEnd |-> undefined,
                   rangeHover |-> undefined, emitted |-> <<>>]
         synced == ValueSyncEffect(first, value)
     IN  /\ selectedDate = synced.selectedDate
         /\ currentMonth = synced.currentMonth
         /\ isOpen = synced.isOpen
         /\ view = synced.view
         /\ isRangeMode = synced.isRangeMode
         /\ rangeStart = synced.rangeStart
         /\ rangeEnd = synced.rangeEnd
         /\ rangeHover = synced.rangeHover
         /\ emitted = synced.emitted
  /\ closeTimer = FALSE
  /\ scrollTimers = 0
  /\ mounted = TRUE

NextProps ==
  \/ PreviousMonth
  \/ NextMonth
  \/ ToggleView
  \/ \E year \in YearChoices, monthIndex \in MonthChoices : SelectMonthYear(year, monthIndex)
  \/ Open
  \/ Close
  \/ CloseTimerFires
  \/ ScrollTimerFires

SpecProps == InitProps /\ [][NextProps]_vars

(***************************************************************************)
(* A picker in range mode whose consumer passes a value, at construction   *)
(* and in later renders: a range, or a range with one end missing.         *)
(***************************************************************************)
\* ranges with one end: the other property is absent, or is undefined
PartialRanges ==
  {[from |-> Date(2024, 2, 5)], [to |-> Date(2024, 2, 10)],
   Range(Date(2024, 2, 5), undefined), Range(undefined, Date(2024, 2, 10))}

SuppliedValues == {undefined, Range(Date(2024, 2, 5), Date(2024, 2, 10))} \cup PartialRanges

InitValue ==
  /\ mode = "range"
  /\ onReset = FALSE
  /\ value \in SuppliedValues
  /\ defaultValue = undefined
  /\ today = Now
  /\ LET first == [selectedDate |-> defaultValue,
                   currentMonth |-> IF Truthy(value) THEN value
                                    ELSE IF Truthy(defaultValue) THEN defaultValue ELSE today,
                   isOpen |-> FALSE, view |-> "days", isRangeMode |-> (mode = "range"),
                   rangeStart |-> undefined, rangeEnd |-> undefined,
                   rangeHover |-> undefined, emitted |-> <<>>]
         synced == ValueSyncEffect(first, value)
     IN  /\ selectedDate = synced.selectedDate
         /\ currentMonth = synced.currentMonth
         /\ isOpen = synced.isOpen
         /\ view = synced.view
         /\ isRangeMode = synced.isRangeMode
         /\ rangeStart = synced.rangeStart
         /\ rangeEnd = synced.rangeEnd
         /\ rangeHover = synced.rangeHover
         /\ emitted = synced.emitted
  /\ closeTimer = FALSE
  /\ scrollTimers = 0
  /\ mounted = TRUE

\* the consumer renders the picker with another value: the effect of lines
\* 96-104 runs, those of lines 107-132 do not (isOpen and view are as they
\* were)
ValueChanges(v) ==
  /\ mounted
  /\ v # value
  /\ value' = v
  /\ LET synced == ValueSyncEffect(Cur, v)
     IN  /\ selectedDate' = synced.selectedDate
         /\ currentMonth' = synced.currentMonth
         /\ isOpen' = synced.isOpen
         /\ view' = synced.view
         /\ isRangeMode' = synced.isRangeMode
         /\ rangeStart' = synced.rangeStart
         /\ rangeEnd' = synced.rangeEnd
         /\ rangeHover' = synced.rangeHover
         /\ emitted' = synced.emitted
  /\ UNCHANGED <<mode, onReset, defaultValue, today, closeTimer, scrollTimers, mounted>>

NextValue ==
  \/ \E day \in Clickable : SelectDay(day)
  \/ \E day \in Clickable : HoverDay(day)
  \/ PreviousMonth
  \/ NextMonth
  \/ Open
  \/ \E v \in SuppliedValues : ValueChanges(v)

SpecValue == InitValue /\ [][NextValue]_vars

(***************************************************************************)
(* The calendar grid: a picker built empty on any day of the years         *)
(* GridFirstYear .. GridLastYear, and the commands that move the month     *)
(* on display.                                                             *)
(***************************************************************************)
InitGrid ==
  /\ mode = "duo"
  /\ onReset = FALSE
  /\ value = undefined
  /\ defaultValue = undefined
  /\ today \in {[y |-> y, m |-> m, d |-> d, t |-> 1] :
                  y \in GridFirstYear .. GridLastYear, m \in 0 .. 11, d \in {1, 29, 31}}
  /\ today.d <= DaysIn(today.y, today.m)
  /\ selectedDate = defaultValue
  /\ currentMonth = (IF Truthy(value) THEN value
                     ELSE IF Truthy(defaultValue) THEN defaultValue ELSE today)
  /\ isOpen = FALSE
  /\ view = "days"
  /\ isRangeMode = (mode = "range")
  /\ rangeStart = undefined
  /\ rangeEnd = undefined
  /\ rangeHover = undefined
  /\ closeTimer = FALSE
  /\ scrollTimers = 0
  /\ mounted = TRUE
  /\ emitted = <<>>

NextGrid ==
  \/ PreviousMonth
  \/ NextMonth
  \/ \E year \in YearChoices, monthIndex \in MonthChoices : SelectMonthYear(year, monthIndex)

SpecGrid == InitGrid /\ [][NextGrid]_vars

(***************************************************************************)
(* Properties.                                                             *)
(***************************************************************************)
\* the payloads handed to onValueChange, in order
ValuePayloads(e) ==
  LET calls == SelectSeq(e, LAMBDA c : c.sig = "onValueChange")
  IN  [i \in 1 .. Len(calls) |-> calls[i].payload]

Earlier(a, b) == IF DayNumber(a) <= DayNumber(b) THEN a ELSE b

Later(a, b) == IF DayNumber(a) <= DayNumber(b) THEN b ELSE a

RangeEmpty(s) == s.rangeStart = undefined /\ s.rangeEnd = undefined

RangeStartSelected(s) == IsDate(s.rangeStart) /\ s.rangeEnd = undefined

RangeComplete(s) == IsDate(s.rangeStart) /\ IsDate(s.rangeEnd)

\* a handler called on the render that follows the one of s
Rendered(s) == [s EXCEPT !.emitted = <<>>]

\* C1: on a picker built empty, whatever commands were issued, the range
\* state is Empty, StartSelected or Complete, and a Complete range has its
\* start no later than its end.
C1_RangeStateOrdered ==
  /\ RangeEmpty(Cur) \/ RangeStartSelected(Cur) \/ RangeComplete(Cur)
  /\ RangeComplete(Cur) => ~isAfter(rangeStart, rangeEnd)

C1_Witness ==
  /\ RangeComplete(Cur)
  /\ isAfter(rangeEnd, rangeStart)
  /\ emitted = <<ValueChanged(Range(rangeStart, rangeEnd))>>

\* C2: in range mode, from Empty, a click on a followed by a click on b
\* ends in Complete(min(a,b), max(a,b)), calls onValueChange exactly once,
\* with {from: min(a,b), to: max(a,b)}, which is the stored range, and
\* closes the popover.
C2_TwoClicksCommitOrderedRange ==
  (isRangeMode /\ RangeEmpty(Cur)) =>
    \A a \in SampleDays, b \in SampleDays :
      LET s1 == handleSelect(Cur, a)
          s2 == handleSelect(Rendered(s1), b)
      IN  /\ s2.rangeStart = Earlier(a, b)
          /\ s2.rangeEnd = Later(a, b)
          /\ ValuePayloads(s1.emitted \o s2.emitted) = <<Range(Earlier(a, b), Later(a, b))>>
          /\ ValuePayloads(s2.emitted) = <<Range(s2.rangeStart, s2.rangeEnd)>>
          /\ ~s2.isOpen

\* Scenario A has been played: 2024-03-05 .. 2024-03-10 is committed
C2_Witness ==
  /\ isRangeMode
  /\ rangeStart = Date(2024, 2, 5)
  /\ rangeEnd = Date(2024, 2, 10)
  /\ emitted = <<ValueChanged(Range(Date(2024, 2, 5), Date(2024, 2, 10)))>>
  /\ ~isOpen

\* C3: in range mode, a click on a day while the range is Empty or Complete
\* makes that day the start of a new range, clears the hover preview, calls
\* no callback and leaves the popover as it is.
C3_FirstClickStartsRange ==
  [][\A day \in SampleDays :
       (isRangeMode /\ (RangeEmpty(Cur) \/ RangeComplete(Cur)) /\ SelectDay(day)) =>
         /\ rangeStart' = day
         /\ rangeEnd' = undefined
         /\ rangeHover' = undefined
         /\ emitted' = <<>>
         /\ isOpen' = isOpen]_vars

\* a range restarted with the popover open: start only, nothing emitted
C3_Witness ==
  /\ isRangeMode
  /\ isOpen
  /\ RangeStartSelected(Cur)
  /\ rangeHover = undefined
  /\ emitted = <<>>

\* C4: a hover never changes the committed state: it writes rangeHover
\* only, and only while a start alone is selected in range mode; it calls no
\* callback; and the second click commits the same range and the same
\* payload whatever the hover preview is.
C4_HoverOnlyPreviews ==
  /\ [][\A day \in SampleDays :
          HoverDay(day) =>
            /\ UNCHANGED <<selectedDate, currentMonth, isOpen, view, isRangeMode,
                           rangeStart, rangeEnd, closeTimer>>
            /\ emitted' = <<>>
            /\ (RangeEmpty(Cur) \/ RangeComplete(Cur)) => UNCHANGED rangeHover]_vars
  /\ [](\A b \in SampleDays, h \in SampleDays :
          (isRangeMode /\ RangeStartSelected(Cur)) =>
            LET hovered == handleSelect(Rendered(handleDayHover(Cur, h)), b)
                plain   == handleSelect([Cur EXCEPT !.rangeHover = undefined], b)
            IN  /\ hovered.rangeStart = plain.rangeStart
                /\ hovered.rangeEnd = plain.rangeEnd
                /\ hovered.emitted = plain.emitted)

\* a hover preview is on display over a selected start
C4_Witness ==
  /\ isRangeMode
  /\ RangeStartSelected(Cur)
  /\ IsDate(rangeHover)
  /\ rangeHover # rangeStart

\* C5: in duo mode, flipping the switch and flipping it back changes neither
\* the single value nor the range start, end and hover, whichever way the
\* first flip goes.
C5_FlipRoundTripKeepsSelections ==
  mode = "duo" =>
    LET s1 == onCheckedChange(Cur, ~isRangeMode)
        s2 == onCheckedChange(Rendered(s1), isRangeMode)
        Kept(s) == /\ s.selectedDate = selectedDate
                   /\ s.rangeStart = rangeStart
                   /\ s.rangeEnd = rangeEnd
                   /\ s.rangeHover = rangeHover
    IN  /\ Kept(s1)
        /\ Kept(s2)
        /\ s2.isRangeMode = isRangeMode

\* the switch was flipped to single over a started range and a single value
C5_Witness ==
  /\ mode = "duo"
  /\ ~isRangeMode
  /\ RangeStartSelected(Cur)
  /\ IsDate(selectedDate)
  /\ Len(emitted) = 2
  /\ emitted[2] = ModeChanged("single")

\* C6: in duo mode, flipping to range calls onValueChange with the range
\* when it is Complete and with undefined otherwise; flipping to single
\* calls it with the single value when there is one and with undefined
\* otherwise.
C6_FlipEmitsActiveValue ==
  [][/\ SetRangeMode(TRUE) =>
          ValuePayloads(emitted') =
            <<IF RangeComplete(Cur) THEN Range(rangeStart, rangeEnd) ELSE undefined>>
     /\ SetRangeMode(FALSE) =>
          ValuePayloads(emitted') =
            <<IF IsDate(selectedDate) THEN selectedDate ELSE undefined>>]_vars

\* Scenario B, after the flip to range and the flip back: the single
\* value 2024-01-01 is emitted again
C6_Witness ==
  /\ mode = "duo"
  /\ ~isRangeMode
  /\ selectedDate = Date(2024, 0, 1)
  /\ RangeEmpty(Cur)
  /\ emitted = <<ValueChanged(Date(2024, 0, 1)), ModeChanged("single")>>

\* the calendar, stated without the Date object: the weekday of a day by
\* Sakamoto's formula and the lengths of the months by the table
MonthOffsets == <<0, 3, 2, 5, 0, 3, 5, 1, 4, 6, 2, 4>>

WeekdayOf(y, m, d) ==
  LET yy == IF m < 2 THEN y - 1 ELSE y
  IN  (yy + yy \div 4 - yy \div 100 + yy \div 400 + MonthOffsets[m + 1] + d) % 7

MonthLength(y, m) ==
  LET feb == IF y % 400 = 0 THEN 29 ELSE IF y % 100 = 0 THEN 28
             ELSE IF y % 4 = 0 THEN 29 ELSE 28
  IN  <<31, feb, 31, 30, 31, 30, 31, 31, 30, 31, 30, 31>>[m + 1]

Grid == calendarDays(currentMonth)

\* C7, as claimed: the length of the grid on display is a multiple of 7.
C7_GridLengthMultipleOf7 == Len(Grid) % 7 = 0

\* C7, amended: the length of the grid on display is the weekday index of
\* day 1 of the month plus the number of days of the month, a number in
\* 28 .. 37; no cell follows the last day.
C7_GridLengthIsLeadPlusDays ==
  LET cursor == CursorOf(currentMonth)
      grid   == Grid
  IN  /\ Len(grid) = WeekdayOf(cursor.y, cursor.m, 1) + MonthLength(cursor.y, cursor.m)
      /\ Len(grid) \in 28 .. 37
      /\ grid[Len(grid)] # undefined

\* February 2024 on display: 4 empty cells and 29 days, 33 cells
C7_Witness ==
  /\ CursorOf(currentMonth).y = 2024
  /\ CursorOf(currentMonth).m = 1
  /\ CursorOf(currentMonth) # today
  /\ Len(Grid) = 33

\* C8: the grid on display is w empty cells, w the weekday index of day 1
\* of the month (0 = Sunday), followed by the days 1 .. N of the month in
\* increasing order, N the length of the month under the leap-year rules; N
\* cells are not empty.
C8_GridIsLeadThenDays ==
  LET cursor == CursorOf(currentMonth)
      w == WeekdayOf(cursor.y, cursor.m, 1)
      N == MonthLength(cursor.y, cursor.m)
      grid == Grid
  IN  /\ w \in 0 .. 6
      /\ N \in 28 .. 31
      /\ DOMAIN grid = 1 .. w + N
      /\ \A i \in 1 .. w : grid[i] = undefined
      /\ \A k \in 1 .. N : grid[w + k] = Date(cursor.y, cursor.m, k)
      /\ Cardinality({i \in DOMAIN grid : grid[i] # undefined}) = N

\* February 2000 reached by a command: 2 empty cells, then 29 days
C8_Witness ==
  /\ CursorOf(currentMonth).y = 2000
  /\ CursorOf(currentMonth).m = 1
  /\ CursorOf(currentMonth) # today
  /\ LET grid == Grid
     IN  /\ grid[2] = undefined
         /\ grid[3] = Date(2000, 1, 1)
         /\ grid[31] = Date(2000, 1, 29)
         /\ Len(grid) = 31

\* C9: with an onReset handler, a second reset right after a first leaves
\* the state the first one left (range mode: no start, no end, no hover;
\* single mode: no selected date), and each of the two calls onValueChange
\* once, with {from: undefined, to: undefined} in range mode and undefined
\* in single mode.
C9_ResetIdempotentAndRepeatsSignal ==
  onReset =>
    LET r1 == handleReset(Cur)
        r2 == handleReset(Rendered(r1))
        payload == IF isRangeMode THEN Range(undefined, undefined) ELSE undefined
    IN  /\ Rendered(r2) = Rendered(r1)
        /\ isRangeMode => RangeEmpty(r1) /\ r1.rangeHover = undefined
        /\ ~isRangeMode => r1.selectedDate = undefined
        /\ ValuePayloads(r1.emitted) = <<payload>>
        /\ ValuePayloads(r2.emitted) = <<payload>>

\* a reset has cleared the range and called both callbacks
C9_Witness ==
  /\ onReset
  /\ isRangeMode
  /\ RangeEmpty(Cur)
  /\ rangeHover = undefined
  /\ emitted = <<ValueChanged(Range(undefined, undefined)), ResetCalled>>

\* C10: without an onReset handler, reset changes no state of the picker
\* and calls no callback.
C10_ResetInertWithoutHandler ==
  [][(~onReset /\ Reset) =>
       /\ UNCHANGED <<selectedDate, currentMonth, isOpen, view, isRangeMode,
                      rangeStart, rangeEnd, rangeHover, closeTimer>>
       /\ emitted' = <<>>]_vars

\* no handler, a complete range and a single value that a reset would clear
C10_Witness ==
  /\ ~onReset
  /\ RangeComplete(Cur)
  /\ IsDate(selectedDate)
  /\ emitted = <<>>

\* C11: when the popover is reopened on the years view with the reset of
\* the view still pending, the view is years after the reopening and the
\* reset is pending no more; no reset is pending while the popover is open;
\* and, as long as the popover stays open, the view leaves years only by
\* toggleView or by the choice of a month.
C11_ReopenCancelsCloseReset ==
  /\ [][(~isOpen /\ isOpen' /\ view = "years" /\ closeTimer) =>
          (view' = "years" /\ ~closeTimer')]_vars
  /\ [][(isOpen => ~closeTimer) /\ (isOpen' => ~closeTimer')]_vars
  /\ [][(isOpen /\ isOpen' /\ view = "years" /\ view' # "years") =>
          \/ ToggleView
          \/ \E year \in YearChoices, monthIndex \in MonthChoices :
                SelectMonthYear(year, monthIndex)]_vars

\* the popover is closed on the years view with the reset pending: the
\* state in which a reopening cancels it
C11_Witness ==
  /\ ~isOpen
  /\ view = "years"
  /\ closeTimer
  /\ mounted

\* C12: a picker that is closed on the years view, and is neither reopened
\* nor unmounted, comes to the days view: a closed picker not on the days
\* view has the reset pending, the reset when it fires sets the view to
\* days, and it does fire.  So a picker that is closed with no reset
\* pending is on the days view, and a reopening keeps the view: it opens
\* on days.
C12_ClosedViewReturnsToDays ==
  /\ (mounted /\ ~isOpen /\ view = "years") ~> (~mounted \/ isOpen \/ view = "days")
  /\ []((mounted /\ ~isOpen /\ view # "days") => closeTimer)
  /\ [][CloseTimerFires => (view' = "days" /\ ~closeTimer' /\ ~isOpen')]_vars
  /\ [][(~isOpen /\ isOpen' /\ ~closeTimer) => view' = "days"]_vars

\* closed on the years view after the scroll has been done: the reset is
\* all that is pending
C12_Witness ==
  /\ mounted
  /\ ~isOpen
  /\ view = "years"
  /\ closeTimer
  /\ scrollTimers = 0

\* the years C13 tries: the ends of the list, a leap year, the year of
\* scenario C, and the years the model navigates to
C13_Years == {FirstYear, 2024, 2030, LastYear} \cup YearChoices

\* C13: in every state, on the days view or on the years view, the choice
\* of a month of a year leaves the picker displaying that month of that
\* year, on the days view, with the selection as it was; so does the
\* command when the model issues it.
C13_MonthSelectSetsCursorAndView ==
  /\ [](\A year \in C13_Years, monthIndex \in 0 .. 11, v \in {"days", "years"} :
          LET n == handleMonthSelect([Cur EXCEPT !.view = v], year, monthIndex)
          IN  /\ currentYear(n) = year
              /\ currentMonthIndex(n) = monthIndex
              /\ IsDate(n.currentMonth)
              /\ n.view = "days"
              /\ n.selectedDate = selectedDate
              /\ n.rangeStart = rangeStart
              /\ n.rangeEnd = rangeEnd
              /\ n.emitted = <<>>)
  /\ [][\A year \in YearChoices, monthIndex \in MonthChoices :
          SelectMonthYear(year, monthIndex) =>
            /\ currentYear(Cur)' = year
            /\ currentMonthIndex(Cur)' = monthIndex
            /\ view' = "days"]_vars

\* scenario C: June 2030 on display, on the days view, in a picker built
\* in another month
C13_Witness ==
  /\ currentYear(Cur) = 2030
  /\ currentMonthIndex(Cur) = 5
  /\ view = "days"
  /\ <<today.y, today.m>> # <<2030, 5>>

\* C14: the click of a day sets currentMonth to that day when the picker
\* is not in range mode, and leaves currentMonth as it is when the picker
\* is in range mode, be the click the first or the second of a range.
C14_SelectMovesCursorInSingleOnly ==
  /\ [](\A day \in SampleDays :
          handleSelect(Cur, day).currentMonth = IF isRangeMode THEN currentMonth ELSE day)
  /\ [][\A day \in SampleDays :
          SelectDay(day) =>
            currentMonth' = IF isRangeMode THEN currentMonth ELSE day]_vars

\* a single date picked in January moved the cursor there; after the flip
\* to range mode and two months forward, the start picked on 5 March has
\* left the cursor on 1 March
C14_Witness ==
  /\ isRangeMode
  /\ selectedDate = Date(2024, 0, 1)
  /\ rangeStart = Date(2024, 2, 5)
  /\ rangeEnd = undefined
  /\ currentMonth = Date(2024, 2, 1)

\* the months from year 0 to the month on display
C15_MonthCount(s) == currentYear(s) * 12 + currentMonthIndex(s)

\* the states C15 tries the two handlers in: the current one with a
\* selection, a sub-mode, a view and an open flag put in
C15_States ==
  {[Cur EXCEPT !.selectedDate = sel, !.rangeStart = from, !.rangeEnd = to,
               !.rangeHover = to, !.isRangeMode = rm, !.view = v, !.isOpen = rm] :
     sel \in {undefined, Date(2024, 0, 1)},
     from \in {undefined, Date(2024, 2, 5)},
     to \in {undefined, Date(2024, 2, 10)},
     rm \in BOOLEAN,
     v \in {"days", "years"}}

\* C15: previousMonth puts the month before on display and nextMonth the
\* month after (the December of the year before for a January, the January
\* of the year after for a December); they change nothing else of the
\* state and call no callback.
C15_MonthStepsKeepSelection ==
  /\ [](\A s \in C15_States :
          LET p == previousMonth(s)
              n == nextMonth(s)
          IN  /\ C15_MonthCount(p) = C15_MonthCount(s) - 1
              /\ C15_MonthCount(n) = C15_MonthCount(s) + 1
              /\ currentMonthIndex(s) = 0 =>
                    (currentMonthIndex(p) = 11 /\ currentYear(p) = currentYear(s) - 1)
              /\ currentMonthIndex(s) = 11 =>
                    (currentMonthIndex(n) = 0 /\ currentYear(n) = currentYear(s) + 1)
              /\ [p EXCEPT !.currentMonth = s.currentMonth] = s
              /\ [n EXCEPT !.currentMonth = s.currentMonth] = s)
  /\ [][(PreviousMonth => C15_MonthCount(Cur)' = C15_MonthCount(Cur) - 1)
        /\ (NextMonth => C15_MonthCount(Cur)' = C15_MonthCount(Cur) + 1)
        /\ ((PreviousMonth \/ NextMonth) =>
              /\ UNCHANGED <<selectedDate, rangeStart, rangeEnd, rangeHover,
                             isRangeMode, view, isOpen>>
              /\ emitted' = <<>>)]_vars

\* from a December, nextMonth has put the January of the year after on
\* display, on the day the December was on
C15_Witness ==
  /\ today.m = 11
  /\ today.d = 31
  /\ currentMonthIndex(Cur) = 0
  /\ currentYear(Cur) = today.y + 1
  /\ currentMonth.d = 31

\* C16: a step taken with the popover open that changes the view is a
\* toggleView or the choice of a month; with the popover open the timeout
\* that resets the view does not fire, and the timeout of the scroll, when
\* it fires, leaves the view as it is.
C16_OpenViewChangesByCommandOnly ==
  /\ [][(isOpen /\ view' # view) =>
          \/ ToggleView
          \/ \E year \in YearChoices, monthIndex \in MonthChoices :
                SelectMonthYear(year, monthIndex)]_vars
  /\ [][isOpen => (~closeTimer /\ ~CloseTimerFires)]_vars
  /\ [][(isOpen /\ scrollTimers' < scrollTimers) => view' = view]_vars

\* the popover is open on the years view with the scroll still to come
C16_Witness ==
  /\ isOpen
  /\ view = "years"
  /\ scrollTimers > 0
  /\ ~closeTimer

\* C17: when a timeout of the scroll fires with the picker on the days
\* view, scrollIntoView is not called.
C17_ScrollTimerQuietOnDays ==
  [][(view = "days" /\ ScrollTimerFires) => emitted' = <<>>]_vars

\* the popover is open on the days view and scrollIntoView has just been
\* called: the view was toggled to years and back before the timeout fired
C17_Witness ==
  /\ isOpen
  /\ view = "days"
  /\ emitted = <<ScrollIntoView>>

\* C18: once the component is unmounted no timeout is pending, neither
\* that of the reset of the view nor one of the scroll, and so none fires.
C18_NoTimerPendingAfterUnmount ==
  /\ [](~mounted => (~closeTimer /\ scrollTimers = 0))
  /\ [][~mounted => ~(CloseTimerFires \/ ScrollTimerFires)]_vars

\* unmounted with the popover open on the years view, within 100 ms of the
\* toggleView that set the timeout of the scroll
C18_Witness ==
  /\ ~mounted
  /\ isOpen
  /\ view = "years"
  /\ scrollTimers > 0
  /\ ~closeTimer

\* C19: a payload of onValueChange that is a range has both a from and a
\* to that are dates, or neither; the first click of a range calls no
\* callback, and the switch flipped to range over a start alone reports
\* undefined.
C19_NoHalfRangeEmitted ==
  /\ \A i \in 1 .. Len(emitted) :
        (emitted[i].sig = "onValueChange" /\ "from" \in DOMAIN emitted[i].payload) =>
          (IsDate(emitted[i].payload.from) <=> IsDate(emitted[i].payload.to))
  /\ \A day \in SampleDays :
        (isRangeMode /\ ~RangeStartSelected(Cur)) => handleSelect(Cur, day).emitted = <<>>
  /\ (mode = "duo" /\ ~isRangeMode /\ RangeStartSelected(Cur)) =>
        ValuePayloads(onCheckedChange(Cur, TRUE).emitted) = <<undefined>>

\* the switch has just been flipped to range over a start alone: undefined
\* was reported, not the start
C19_Witness ==
  /\ isRangeMode
  /\ RangeStartSelected(Cur)
  /\ emitted = <<ValueChanged(undefined), ModeChanged("range")>>

\* C20: a picker built in single mode with a date as its initial value
\* (defaultValue) has that date selected, and a picker built in range mode
\* with a range as its initial value has the range's from as rangeStart
\* and its to as rangeEnd, as long as no day has been clicked.
C20_BuiltFromInitialValue ==
  /\ (mode = "single" /\ IsDate(defaultValue)) => selectedDate = defaultValue
  /\ (mode = "range" /\ "from" \in DOMAIN defaultValue) =>
        (rangeStart = defaultValue.from /\ rangeEnd = defaultValue.to)

\* a picker built in range mode with a range as defaultValue and no value,
\* opened: it has no range, and selectedDate holds the range object
C20_Witness ==
  /\ mode = "range"
  /\ defaultValue = Range(Date(2024, 2, 5), Date(2024, 2, 10))
  /\ value = undefined
  /\ isOpen
  /\ RangeEmpty(Cur)
  /\ selectedDate = defaultValue

\* the picker in state s has taken a value with one end as an unfinished
\* range: it has no complete range, it has called no callback, and a click
\* of a day in range mode ends the range when s has a start and starts one
\* when it has none
C21_Absorbed(s) ==
  /\ ~RangeComplete(s)
  /\ s.emitted = <<>>
  /\ \A day \in SampleDays :
        LET n == handleSelect([s EXCEPT !.isRangeMode = TRUE], day)
        IN  IF IsDate(s.rangeStart)
            THEN /\ n.rangeStart = Earlier(s.rangeStart, day)
                 /\ n.rangeEnd = Later(s.rangeStart, day)
                 /\ ValuePayloads(n.emitted) = <<Range(n.rangeStart, n.rangeEnd)>>
            ELSE /\ n.rangeStart = day
                 /\ n.rangeEnd = undefined
                 /\ n.emitted = <<>>

\* C21: a value that is a range with one end only, passed at construction
\* or in a later render, leaves the picker without a complete range and
\* calls no callback, and the next click of a day in range mode is a click
\* of the two-click protocol.
C21_PartialValueAbsorbed ==
  /\ (value \in PartialRanges => C21_Absorbed(Cur))
  /\ [][\A v \in PartialRanges : ValueChanges(v) => C21_Absorbed(Cur)']_vars

\* the consumer has passed a value with a to and no from to a picker that
\* had a complete range: the range is still there
C21_Witness ==
  /\ value = [to |-> Date(2024, 2, 10)]
  /\ isRangeMode
  /\ RangeComplete(Cur)
  /\ emitted = <<>>

====
